---- MODULE Spec2Model ----
(***************************************************************************)
(* Model of the Solana log monitor (src/index.js): the SolanaMonitor       *)
(* connection / subscription state machine, the message dispatcher and     *)
(* the notification pipeline, together with the environment that drives    *)
(* them (the WebSocket transport, timers, the Supabase store, signals).    *)
(*                                                                         *)
(* Strings that the code inspects character by character (log lines,       *)
(* program ids, wallet addresses) are sequences of one-character strings.  *)
(* Millisecond delays are kept in eighths of a millisecond, so that the    *)
(* IEEE doubles 25312.5, 37968.75 and 56953.125 reached by the backoff     *)
(* are represented exactly.                                                *)
(***************************************************************************)
EXTENDS Integers, Sequences, FiniteSets, Bags, TLC

-----------------------------------------------------------------------------
(* Configuration: src/index.js 32-41                                       *)

RAYDIUM ==
  <<"6","7","5","k","P","X","9","M","H","T","j","S","2","z","t","1","q","f","r","1","N","Y","H","u","z","e","L","X","f","Q","M","9","H","2","4","w","F","S","U","t","1","M","p","8">>

JUPITER ==
  <<"J","U","P","6","L","k","b","Z","b","j","S","1","j","K","K","w","a","p","d","H","N","y","7","4","z","c","Z","3","t","L","U","Z","o","i","5","Q","N","y","V","T","a","V","4">>

ORCA ==
  <<"w","h","i","r","L","b","M","i","i","c","V","d","i","o","4","q","v","U","f","M","5","K","A","g","6","C","t","8","V","w","p","Y","z","G","f","f","3","u","c","t","y","C","c">>

PUMP_FUN ==
  <<"6","E","F","8","r","r","e","c","t","h","R","5","D","k","z","o","n","8","N","w","u","7","8","h","R","v","f","C","K","u","b","J","1","4","M","5","u","B","E","w","F","6","P">>

METEORA ==
  <<"E","o","7","W","j","K","q","6","7","r","j","J","Q","S","Z","x","S","6","z","3","Y","k","a","p","z","Y","3","e","M","j","6","X","y","8","X","5","E","Q","V","n","5","U","a","B">>

OPENBOOK ==
  <<"s","r","m","q","P","i","D","k","J","X","R","L","G","g","x","t","F","B","R","N","J","h","G","j","L","h","Q","K","L","L","q","P","K","C","C","Q","G","L","F","T","Q","q","o">>


DEX_PROGRAM_IDS ==
  <<RAYDIUM, JUPITER, ORCA, PUMP_FUN, METEORA, OPENBOOK>>

ACTIVE_DEX_PROGRAMS ==
  DEX_PROGRAM_IDS

-----------------------------------------------------------------------------
(* Bounds of the model                                                     *)

\* socket objects that can be alive at once (closed, unreferenced ones are
\* collected)
MaxSockets == 2

\* rows returned by one query of the wallets table
MaxRows == 2

\* ticks of the five-minute refresh interval
MaxRefresh == 1

\* refreshes whose store query is still outstanding
MaxPendingLoads == 1

\* subscription ids the remote hands out on one connection
MaxSubs == 2

\* the same, on the connection that stays up (SpecLive)
MaxLiveSubs == 7

\* notifications handled in one run of the classification samples
\* (SpecClassify)
MaxSamples == 2

\* transactions the remote's stream carries (SpecCache): enough to fill
\* processedTransactions past its limit
MaxSignatures == 1002

-----------------------------------------------------------------------------
(* Program constants                                                       *)

\* this.maxReconnectAttempts
maxReconnectAttempts == 10

\* this.reconnectDelay at construction and after onopen, in ms
InitialDelay == 5000

\* the cap of the backoff, in ms
MaxDelay == 60000

-----------------------------------------------------------------------------
(* The environment's data                                                  *)

\* A millisecond count in the model's unit (1/8 ms), and back as Node's
\* timers take it: setTimeout truncates the delay to whole milliseconds.
Ms(n) == n * 8

Trunc(d) == d \div 8

Min(a, b) == IF a <= b THEN a ELSE b

WalletA ==
  <<"7","x","K","X","t","g","2","C","W","8","7","d","9","7","T","X","J","S","D","p","b","D","5","j","B","k","h","e","T","q","A","8","3","T","Z","R","u","J","o","s","g","A","s","U">>

WalletB ==
  <<"9","W","z","D","X","w","B","b","m","k","g","8","Z","T","b","N","M","q","U","x","v","Q","R","A","y","r","Z","z","D","s","G","Y","d","L","V","L","9","z","Y","t","A","W","W","M">>

\* verified wallet addresses the store can return
StoreWallets == {WalletA, WalletB}

SocketIds == 1..MaxSockets

ReadyStates == {"NONE", "CONNECTING", "OPEN", "CLOSING", "CLOSED"}

\* the rows a select on the wallets table can return
RowSeqs == UNION {[1..n -> StoreWallets] : n \in 0..MaxRows}

\* how a store call ends: { data, error: null }, { error }, or a rejection
StoreOutcomes == {"ok", "error", "throw"}

\* how the select of loadTrackedWallets() ends
LoadResults ==
  {[outcome |-> "ok", rows |-> r] : r \in RowSeqs}
    \cup {[outcome |-> o, rows |-> <<>>] : o \in StoreOutcomes \ {"ok"}}

-----------------------------------------------------------------------------
VARIABLES
  ws,                    \* this.ws: 0 for null, else the socket object
  sockets,               \* readyState of every socket object
  isConnected,           \* this.isConnected
  reconnectAttempts,     \* this.reconnectAttempts
  reconnectDelay,        \* this.reconnectDelay, in 1/8 ms
  subscriptionIds,       \* this.subscriptionIds
  trackedWallets,        \* this.trackedWallets, in insertion order
  processedTransactions, \* this.processedTransactions, in insertion order
  timers,                \* pending setTimeout(connect) timers: their delays in ms
  sent,                  \* the frames given to send() of each socket, in order
  loads,                 \* loadTrackedWallets() calls waiting for the store
  refreshes,             \* ticks of the refresh interval so far
  pc,                    \* position of main()
  exited,                \* "running", or how the process ended
  urlValid,              \* whether new WebSocket(url) accepts the configured url
  remoteSubs,            \* subscription ids the remote has assigned on the connection
  classifyCount,         \* per signature, the calls of isDEXTransaction
  inflight,              \* handleLogNotification calls waiting for an upsert
  upserts                \* candidate_wallets upserts issued: bag of <<wallet, signature>>

vars ==
  <<ws, sockets, isConnected, reconnectAttempts, reconnectDelay, subscriptionIds,
    trackedWallets, processedTransactions, timers, sent, loads, refreshes, pc,
    exited, urlValid, remoteSubs, classifyCount, inflight, upserts>>

\* The monitor object and what its handlers act on, as one record: the
\* methods below are functions from such a record to the record they leave.
Cur ==
  [ws |-> ws, sockets |-> sockets, isConnected |-> isConnected,
   reconnectAttempts |-> reconnectAttempts, reconnectDelay |-> reconnectDelay,
   subscriptionIds |-> subscriptionIds, trackedWallets |-> trackedWallets,
   processedTransactions |-> processedTransactions, timers |-> timers,
   sent |-> sent, exited |-> exited, remoteSubs |-> remoteSubs,
   classifyCount |-> classifyCount, inflight |-> inflight, upserts |-> upserts]

Install(st) ==
  /\ ws' = st.ws
  /\ sockets' = st.sockets
  /\ isConnected' = st.isConnected
  /\ reconnectAttempts' = st.reconnectAttempts
  /\ reconnectDelay' = st.reconnectDelay
  /\ subscriptionIds' = st.subscriptionIds
  /\ trackedWallets' = st.trackedWallets
  /\ processedTransactions' = st.processedTransactions
  /\ timers' = st.timers
  /\ sent' = st.sent
  /\ exited' = st.exited
  /\ remoteSubs' = st.remoteSubs
  /\ classifyCount' = st.classifyCount
  /\ inflight' = st.inflight
  /\ upserts' = st.upserts

-----------------------------------------------------------------------------
(* Socket objects                                                          *)

\* A closed socket that this.ws no longer refers to emits nothing more and
\* is unreachable: its slot is free again.
Collect(st) ==
  LET dead(s) == st.sockets[s] = "CLOSED" /\ s # st.ws
  IN  [st EXCEPT
         !.sockets = [s \in SocketIds |-> IF dead(s) THEN "NONE" ELSE st.sockets[s]],
         !.sent = [s \in SocketIds |-> IF dead(s) THEN <<>> ELSE st.sent[s]]]

FreeSockets(st) == {s \in SocketIds : st.sockets[s] = "NONE"}

NewSocket(st) == CHOOSE s \in FreeSockets(st) : \A t \in FreeSockets(st) : s <= t

-----------------------------------------------------------------------------
(* Connection management: src/index.js 92-148                              *)

\* setTimeout(() => this.connect(), delay)
SetTimeout(st, delay) == [st EXCEPT !.timers = Append(@, Trunc(delay))]

\* this.reconnectDelay * 1.5 on a double
TimesOneAndHalf(d) == (d * 3) \div 2

handleReconnect_lateCeiling(st) ==
  IF st.reconnectAttempts > maxReconnectAttempts
  THEN [st EXCEPT !.exited = "fatal"]
  ELSE [SetTimeout(st, st.reconnectDelay) EXCEPT
          !.reconnectAttempts = @ + 1,
          !.reconnectDelay = Min(TimesOneAndHalf(@), Ms(MaxDelay))]

handleReconnect_growFirst(st) ==
  IF st.reconnectAttempts >= maxReconnectAttempts
  THEN [st EXCEPT !.exited = "fatal"]
  ELSE LET grown == Min(TimesOneAndHalf(st.reconnectDelay), Ms(MaxDelay))
       IN  [SetTimeout(st, grown) EXCEPT
              !.reconnectAttempts = @ + 1,
              !.reconnectDelay = grown]

handleReconnect(st) ==
  IF st.reconnectAttempts >= maxReconnectAttempts
  THEN [st EXCEPT !.exited = "fatal"]
  ELSE [SetTimeout(st, st.reconnectDelay) EXCEPT
          !.reconnectAttempts = @ + 1,
          !.reconnectDelay = Min(TimesOneAndHalf(@), Ms(MaxDelay))]

connect_ignoresConnecting(st) ==
  IF st.isConnected
  THEN st
  ELSE IF ~urlValid
  THEN handleReconnect(st)
  ELSE LET s == NewSocket(st)
       IN  Collect([st EXCEPT !.ws = s, !.sockets[s] = "CONNECTING"])

\* connect(): new WebSocket(url) throws on a url it cannot parse, and the
\* catch block then schedules a reconnect
connect(st) ==
  IF st.isConnected \/ (st.ws # 0 /\ st.sockets[st.ws] = "CONNECTING")
  THEN st
  ELSE IF ~urlValid
  THEN handleReconnect(st)
  ELSE LET s == NewSocket(st)
       IN  Collect([st EXCEPT !.ws = s, !.sockets[s] = "CONNECTING"])

\* whether connect() can be run in the model: a socket slot is free when it
\* needs one
CanConnect(st) ==
  \/ st.isConnected
  \/ (st.ws # 0 /\ st.sockets[st.ws] = "CONNECTING")
  \/ ~urlValid
  \/ FreeSockets(st) # {}

-----------------------------------------------------------------------------
(* Subscription management: src/index.js 154-205                           *)

SubscribeMessage(id, topic) ==
  [jsonrpc |-> "2.0", id |-> id, method |-> "logsSubscribe",
   mentions |-> <<topic>>, commitment |-> "finalized"]

ProgramRequests ==
  [i \in 1..Len(ACTIVE_DEX_PROGRAMS) |->
     SubscribeMessage((i - 1) + 1, ACTIVE_DEX_PROGRAMS[i])]

WalletRequests_idsFromOne(wallets) ==
  [i \in 1..Len(wallets) |-> SubscribeMessage((i - 1) + 1, wallets[i])]

WalletRequests(wallets) ==
  [i \in 1..Len(wallets) |->
     SubscribeMessage(Len(ACTIVE_DEX_PROGRAMS) + (i - 1) + 1, wallets[i])]

subscribeToLogs_whenFlagged(st) ==
  IF ~st.isConnected
  THEN st
  ELSE [st EXCEPT
          !.sent[st.ws] = @ \o ProgramRequests \o WalletRequests(st.trackedWallets)]

subscribeToLogs(st) ==
  IF st.ws = 0 \/ st.sockets[st.ws] # "OPEN"
  THEN st
  ELSE [st EXCEPT
          !.sent[st.ws] = @ \o ProgramRequests \o WalletRequests(st.trackedWallets)]

-----------------------------------------------------------------------------
(* Wallet management: src/index.js 66-86 and 591-599                       *)

\* new Set(array), as the sequence of its elements in insertion order
RECURSIVE SetOf(_)
SetOf(rows) ==
  IF rows = <<>> THEN <<>>
  ELSE LET init == SetOf(SubSeq(rows, 1, Len(rows) - 1))
           last == rows[Len(rows)]
       IN  IF \E i \in 1..Len(init) : init[i] = last THEN init ELSE Append(init, last)

loadTrackedWallets_clearsOnFailure(st, outcome, rows) ==
  IF outcome = "ok"
  THEN [st EXCEPT !.trackedWallets = SetOf(rows)]
  ELSE [st EXCEPT !.trackedWallets = <<>>]

loadTrackedWallets_merges(st, outcome, rows) ==
  IF outcome = "ok" THEN [st EXCEPT !.trackedWallets = SetOf(@ \o rows)] ELSE st

\* the part of loadTrackedWallets() after the await
loadTrackedWallets(st, outcome, rows) ==
  IF outcome = "ok" THEN [st EXCEPT !.trackedWallets = SetOf(rows)] ELSE st

refreshTrackedWallets_loadOnly(st, outcome, rows) ==
  loadTrackedWallets(st, outcome, rows)

\* the part of refreshTrackedWallets() after the await
refreshTrackedWallets(st, outcome, rows) ==
  LET loaded == loadTrackedWallets(st, outcome, rows)
  IN  IF loaded.isConnected THEN subscribeToLogs(loaded) ELSE loaded

-----------------------------------------------------------------------------
(* Transaction processing: src/index.js 286-308, 369-446                   *)

\* processedTransactions is trimmed once it holds more than CacheLimit
\* signatures, to its last CacheKeep
CacheLimit == 1000

CacheKeep == 500

\* the quantifier bounds of walletRegex
MinAddressLen == 32

MaxAddressLen == 44

\* the character class [1-9A-HJ-NP-Za-km-z]
Base58 ==
  {"1","2","3","4","5","6","7","8","9","A","B","C","D","E","F","G","H","J","K","L","M","N","P","Q","R","S","T","U","V","W","X","Y","Z","a","b","c","d","e","f","g","h","i","j","k","m","n","o","p","q","r","s","t","u","v","w","x","y","z"}

KeywordSwap == <<"s","w","a","p">>

KeywordTrade == <<"t","r","a","d","e">>

KeywordExchange == <<"e","x","c","h","a","n","g","e">>

\* String.prototype.includes
Includes(str, pat) ==
  \E k \in 0..(Len(str) - Len(pat)) : SubSeq(str, k + 1, k + Len(pat)) = pat

isDEXTransaction_programsOnly(logs) ==
  \E i \in 1..Len(logs) :
    \E p \in 1..Len(ACTIVE_DEX_PROGRAMS) : Includes(logs[i], ACTIVE_DEX_PROGRAMS[p])

\* isDEXTransaction(logs), for logs an array
isDEXTransaction(logs) ==
  \E i \in 1..Len(logs) :
    \/ \E p \in 1..Len(ACTIVE_DEX_PROGRAMS) : Includes(logs[i], ACTIVE_DEX_PROGRAMS[p])
    \/ Includes(logs[i], KeywordSwap)
    \/ Includes(logs[i], KeywordTrade)
    \/ Includes(logs[i], KeywordExchange)

\* how many characters of the class follow position i - 1, as far as the
\* greedy quantifier {32,44} can take them
RECURSIVE RunLen(_, _, _)
RunLen(str, i, taken) ==
  IF i > Len(str) \/ str[i] \notin Base58 \/ taken = MaxAddressLen
  THEN taken
  ELSE RunLen(str, i + 1, taken + 1)

\* str.match(walletRegex) with the g flag: leftmost matches, each as long
\* as the quantifier allows, the search resuming after each match
RECURSIVE RegexMatches(_, _)
RegexMatches(str, i) ==
  IF i > Len(str) THEN <<>>
  ELSE LET n == RunLen(str, i, 0)
       IN  IF n >= MinAddressLen
           THEN <<SubSeq(str, i, i + n - 1)>> \o RegexMatches(str, i + n)
           ELSE RegexMatches(str, i + 1)

RECURSIVE AllMatches(_)
AllMatches(logs) ==
  IF logs = <<>> THEN <<>>
  ELSE RegexMatches(Head(logs), 1) \o AllMatches(Tail(logs))

extractWalletAddresses_noSet(logs) ==
  LET matches == AllMatches(logs)
  IN  SelectSeq(matches,
        LAMBDA a : Len(a) >= MinAddressLen /\ Len(a) <= MaxAddressLen)

\* extractWalletAddresses(logs): Array.from of the Set of the matches
extractWalletAddresses(logs) ==
  LET matches == AllMatches(logs)
      valid == SelectSeq(matches,
                 LAMBDA a : Len(a) >= MinAddressLen /\ Len(a) <= MaxAddressLen)
  IN  SetOf(valid)

\* analyzeWalletProfitability up to its await: the upsert is issued
analyzeWalletProfitability(st, walletAddress, signature) ==
  [st EXCEPT !.upserts = @ (+) SetToBag({<<walletAddress, signature>>})]

\* a handleLogNotification call suspended in the loop of
\* quickWalletDiscovery: the wallet whose upsert is awaited, and those left
Suspended(signature, wallets) ==
  [signature |-> signature, wallet |-> Head(wallets), rest |-> Tail(wallets)]

\* quickWalletDiscovery up to its first await
quickWalletDiscovery(st, signature, logs) ==
  LET walletAddresses == extractWalletAddresses(logs)
  IN  IF Len(walletAddresses) > 0
      THEN [analyzeWalletProfitability(st, Head(walletAddresses), signature) EXCEPT
              !.inflight = @ (+) SetToBag({Suspended(signature, walletAddresses)})]
      ELSE st

processTransaction(st, signature, logs) ==
  quickWalletDiscovery(st, signature, logs)

resumeDiscovery_stopsOnFailure(st, h, outcome) ==
  LET left == [st EXCEPT !.inflight = @ (-) SetToBag({h})]
  IN  IF Len(h.rest) > 0 /\ outcome = "ok"
      THEN [analyzeWalletProfitability(left, Head(h.rest), h.signature) EXCEPT
              !.inflight = @ (+) SetToBag({Suspended(h.signature, h.rest)})]
      ELSE left

\* the loop of quickWalletDiscovery resumes when the awaited upsert ends;
\* an error result and a rejection are logged inside
\* analyzeWalletProfitability and the loop goes on
resumeDiscovery(st, h, outcome) ==
  LET left == [st EXCEPT !.inflight = @ (-) SetToBag({h})]
  IN  IF Len(h.rest) > 0
      THEN [analyzeWalletProfitability(left, Head(h.rest), h.signature) EXCEPT
              !.inflight = @ (+) SetToBag({Suspended(h.signature, h.rest)})]
      ELSE left

-----------------------------------------------------------------------------
(* Message handling: src/index.js 211-280                                  *)

\* the last n elements: Array.prototype.slice(-n)
SliceLast(seq, n) ==
  IF Len(seq) <= n THEN seq ELSE SubSeq(seq, Len(seq) - n + 1, Len(seq))

InSeq(x, seq) == \E i \in 1..Len(seq) : seq[i] = x

handleLogNotification_noDedup(st, logEntry) ==
  IF ~logEntry.hasSignature THEN st
  ELSE LET added == Append(st.processedTransactions, logEntry.signature)
           seen == [st EXCEPT
                      !.processedTransactions = added,
                      !.classifyCount = @ (+) SetToBag({logEntry.signature})]
       IN  IF logEntry.hasLogs /\ isDEXTransaction(logEntry.logs)
           THEN processTransaction(seen, logEntry.signature, logEntry.logs)
           ELSE seen

handleLogNotification_addsAfterDiscovery(st, logEntry) ==
  IF ~logEntry.hasSignature THEN st
  ELSE IF InSeq(logEntry.signature, st.processedTransactions) THEN st
  ELSE LET counted == [st EXCEPT !.classifyCount = @ (+) SetToBag({logEntry.signature})]
           added == Append(st.processedTransactions, logEntry.signature)
           kept == IF Len(added) > CacheLimit THEN SliceLast(added, CacheKeep) ELSE added
       IN  IF logEntry.hasLogs /\ isDEXTransaction(logEntry.logs)
           THEN processTransaction(counted, logEntry.signature, logEntry.logs)
           ELSE [counted EXCEPT !.processedTransactions = kept]

handleLogNotification_noAdd(st, logEntry) ==
  IF ~logEntry.hasSignature THEN st
  ELSE IF InSeq(logEntry.signature, st.processedTransactions) THEN st
  ELSE LET seen == [st EXCEPT !.classifyCount = @ (+) SetToBag({logEntry.signature})]
       IN  IF logEntry.hasLogs /\ isDEXTransaction(logEntry.logs)
           THEN processTransaction(seen, logEntry.signature, logEntry.logs)
           ELSE seen

handleLogNotification_keepOldest(st, logEntry) ==
  IF ~logEntry.hasSignature THEN st
  ELSE IF InSeq(logEntry.signature, st.processedTransactions) THEN st
  ELSE LET added == Append(st.processedTransactions, logEntry.signature)
           kept == IF Len(added) > CacheLimit THEN SubSeq(added, 1, CacheKeep) ELSE added
           seen == [st EXCEPT
                      !.processedTransactions = kept,
                      !.classifyCount = @ (+) SetToBag({logEntry.signature})]
       IN  IF logEntry.hasLogs /\ isDEXTransaction(logEntry.logs)
           THEN processTransaction(seen, logEntry.signature, logEntry.logs)
           ELSE seen

\* handleLogNotification up to its first await. logs.some throws on a
\* missing logs array, inside the try block: the call of isDEXTransaction
\* is counted, nothing follows it
handleLogNotification(st, logEntry) ==
  IF ~logEntry.hasSignature THEN st
  ELSE IF InSeq(logEntry.signature, st.processedTransactions) THEN st
  ELSE LET added == Append(st.processedTransactions, logEntry.signature)
           kept == IF Len(added) > CacheLimit THEN SliceLast(added, CacheKeep) ELSE added
           seen == [st EXCEPT
                      !.processedTransactions = kept,
                      !.classifyCount = @ (+) SetToBag({logEntry.signature})]
       IN  IF logEntry.hasLogs /\ isDEXTransaction(logEntry.logs)
           THEN processTransaction(seen, logEntry.signature, logEntry.logs)
           ELSE seen

\* the truth value of a number, a missing field being undefined
Truthy(present, n) == present /\ n # 0

handleMessage_retriesOnError(st, m) ==
  IF ~m.parses THEN st
  ELSE IF Truthy(m.hasId, m.id) /\ Truthy(m.hasResult, m.result)
  THEN [st EXCEPT !.subscriptionIds = @ \cup {m.result}]
  ELSE IF Truthy(m.hasId, m.id) /\ m.hasError
  THEN subscribeToLogs(st)
  ELSE IF m.method = "logsNotification" /\ m.hasParams
  THEN handleLogNotification(st, m.entry)
  ELSE st

handleMessage_parseUncaught(st, m) ==
  IF ~m.parses THEN [st EXCEPT !.exited = "fatal"]
  ELSE IF Truthy(m.hasId, m.id) /\ Truthy(m.hasResult, m.result)
  THEN [st EXCEPT !.subscriptionIds = @ \cup {m.result}]
  ELSE IF Truthy(m.hasId, m.id) /\ m.hasError
  THEN st
  ELSE IF m.method = "logsNotification" /\ m.hasParams
  THEN handleLogNotification(st, m.entry)
  ELSE st

\* handleMessage(data): JSON.parse throws on a frame that is no JSON, and
\* the catch block logs it
handleMessage(st, m) ==
  IF ~m.parses THEN st
  ELSE IF Truthy(m.hasId, m.id) /\ Truthy(m.hasResult, m.result)
  THEN [st EXCEPT !.subscriptionIds = @ \cup {m.result}]
  ELSE IF Truthy(m.hasId, m.id) /\ m.hasError
  THEN st
  ELSE IF m.method = "logsNotification" /\ m.hasParams
  THEN handleLogNotification(st, m.entry)
  ELSE st

-----------------------------------------------------------------------------
(* Frames the remote can send                                              *)

NoEntry ==
  [hasSignature |-> FALSE, signature |-> 0, hasLogs |-> FALSE, logs |-> <<>>]

Frame(parses, hasId, id, hasResult, result, hasError, method, hasParams, entry) ==
  [parses |-> parses, hasId |-> hasId, id |-> id, hasResult |-> hasResult,
   result |-> result, hasError |-> hasError, method |-> method,
   hasParams |-> hasParams, entry |-> entry]

\* { id, result }
AckFrame(id, result) == Frame(TRUE, TRUE, id, TRUE, result, FALSE, "", FALSE, NoEntry)

\* { id, error }
ErrorFrame(id) == Frame(TRUE, TRUE, id, FALSE, 0, TRUE, "", FALSE, NoEntry)

\* { method: "logsNotification", params: { result: entry } }
NotificationFrame(entry) ==
  Frame(TRUE, FALSE, 0, FALSE, 0, FALSE, "logsNotification", TRUE, entry)

\* text that JSON.parse rejects
GarbageFrame == Frame(FALSE, FALSE, 0, FALSE, 0, FALSE, "", FALSE, NoEntry)

\* a JSON object of none of the shapes above
OtherFrame == Frame(TRUE, FALSE, 0, FALSE, 0, FALSE, "slotNotification", TRUE, NoEntry)

\* request ids an ack or an error can name: the first program request, the
\* first wallet request, an id no request carries, and 0
FrameIds == {0, 1, Len(ACTIVE_DEX_PROGRAMS) + 1, 99}

ControlFrames ==
  {AckFrame(id, 0) : id \in FrameIds} \cup {ErrorFrame(id) : id \in FrameIds}
    \cup {GarbageFrame, OtherFrame}

LogEntry(signature, logs) ==
  [hasSignature |-> TRUE, signature |-> signature, hasLogs |-> TRUE, logs |-> logs]

LineInvoke == <<"P","r","o","g","r","a","m"," ">> \o JUPITER \o <<" ","i","n","v","o","k","e"," ","[","1","]">>

LineWallet == <<"w","a","l","l","e","t","=">> \o WalletA

LineSwapTwice == <<"s","w","a","p"," ">> \o WalletB \o <<" ">> \o WalletB

LineExchange == <<"e","x","c","h","a","n","g","e"," ","o","k">>

LineNoise == <<"P","r","o","g","r","a","m"," ","l","o","g",":"," ","o","k">>

\* log notifications: a program invocation naming a wallet, a swap naming
\* one wallet twice, a keyword without an address, an unrelated transaction,
\* an entry without logs, an entry without a signature
LogEntries ==
  {LogEntry(1, <<LineInvoke, LineWallet>>),
   LogEntry(2, <<LineSwapTwice>>),
   LogEntry(3, <<LineExchange>>),
   LogEntry(4, <<LineNoise>>),
   [hasSignature |-> TRUE, signature |-> 5, hasLogs |-> FALSE, logs |-> <<>>],
   NoEntry}

NotificationFrames == {NotificationFrame(e) : e \in LogEntries}

\* runs of base-58 characters of 50, 31 and 32 characters
Run50 == WalletA \o SubSeq(WalletB, 1, 6)

Run31 == SubSeq(WalletB, 1, 31)

Run32 == SubSeq(WalletA, 1, 32)

LineUntraded == <<"u","n","t","r","a","d","e","d"," ">> \o WalletA

LineSwap == <<"s","w","a","p">>

LineUpperCase == <<"S","W","A","P"," ","T","r","a","d","e"," ","E","X","C","H","A","N","G","E"," ">> \o WalletA

LineLongRun == <<"e","x","c","h","a","n","g","e"," ">> \o Run50

LineShortRuns == <<"s","w","a","p"," ">> \o Run31 \o <<"0">> \o Run32

LineOrca == <<"i","d","=">> \o ORCA \o <<";">>

\* log notifications that exercise the classifier and the extractor: no
\* log line; an address without program or keyword; a keyword inside a
\* word; one address in two lines; one address twice in a line; keywords
\* in another case; a run longer than an address; runs of 31 and 32
\* characters split by a character outside the alphabet; a program id
SampleEntries ==
  {LogEntry(11, <<>>),
   LogEntry(12, <<LineNoise, LineWallet>>),
   LogEntry(13, <<LineUntraded>>),
   LogEntry(14, <<LineWallet, LineSwap, LineWallet>>),
   LogEntry(15, <<LineSwapTwice>>),
   LogEntry(16, <<LineUpperCase>>),
   LogEntry(17, <<LineLongRun>>),
   LogEntry(18, <<LineShortRuns>>),
   LogEntry(19, <<LineOrca>>)}

\* the k-th transaction of the remote's stream: its signature, and logs
\* that name no program and no keyword
StreamEntry(k) == LogEntry(k, <<LineNoise>>)

-----------------------------------------------------------------------------
(* Socket event handlers installed by connect(): src/index.js 103-125      *)

onopen_keepBackoff(st) ==
  subscribeToLogs([st EXCEPT !.isConnected = TRUE])

onopen(st) ==
  subscribeToLogs([st EXCEPT
                     !.isConnected = TRUE,
                     !.reconnectAttempts = 0,
                     !.reconnectDelay = Ms(InitialDelay)])

onclose_keepsIds(st) ==
  handleReconnect([st EXCEPT !.isConnected = FALSE])

onclose(st) ==
  handleReconnect([st EXCEPT !.isConnected = FALSE, !.subscriptionIds = {}])

onerror_reconnects(st) ==
  handleReconnect([st EXCEPT !.isConnected = FALSE])

onerror(st) ==
  [st EXCEPT !.isConnected = FALSE]

-----------------------------------------------------------------------------
(* Initial state: the monitor as its constructor leaves it (48-60), with   *)
(* the startup loadTrackedWallets() waiting for the store                  *)

Init ==
  /\ ws = 0
  /\ sockets = [s \in SocketIds |-> "NONE"]
  /\ isConnected = FALSE
  /\ reconnectAttempts = 0
  /\ reconnectDelay = Ms(InitialDelay)
  /\ subscriptionIds = {}
  /\ trackedWallets = <<>>
  /\ processedTransactions = <<>>
  /\ timers = <<>>
  /\ sent = [s \in SocketIds |-> <<>>]
  /\ loads = [startup |-> 1, refresh |-> 0]
  /\ refreshes = 0
  /\ pc = "constructed"
  /\ exited = "running"
  /\ urlValid \in BOOLEAN
  /\ remoteSubs = 0
  /\ classifyCount = EmptyBag
  /\ inflight = EmptyBag
  /\ upserts = EmptyBag

Running == exited = "running"

-----------------------------------------------------------------------------
(* Actions                                                                 *)

\* main(): await monitor.connect(), then the intervals and the signal
\* handlers are registered (644-684)
Main ==
  /\ Running
  /\ pc = "constructed"
  /\ CanConnect(Cur)
  /\ Install(connect(Cur))
  /\ pc' = "started"
  /\ UNCHANGED <<loads, refreshes, urlValid>>

\* a reconnect timer expires: connect()
TimerFire ==
  \E i \in 1..Len(timers) :
    LET st == [Cur EXCEPT !.timers = SubSeq(timers, 1, i - 1) \o SubSeq(timers, i + 1, Len(timers))]
    IN  /\ Running
        /\ CanConnect(st)
        /\ Install(connect(st))
        /\ UNCHANGED <<loads, refreshes, pc, urlValid>>

\* the transport opens: readyState OPEN, then the 'open' event
SocketOpen ==
  \E s \in SocketIds :
    /\ Running
    /\ sockets[s] = "CONNECTING"
    /\ Install(onopen([Cur EXCEPT !.sockets[s] = "OPEN", !.remoteSubs = 0]))
    /\ UNCHANGED <<loads, refreshes, pc, urlValid>>

\* the handshake of socket s fails: the transport emits 'error' and 'close'
\* back to back, with nothing in between
HandshakeFails ==
  \E s \in SocketIds :
    /\ Running
    /\ sockets[s] = "CONNECTING"
    /\ Install(Collect(onclose(onerror([Cur EXCEPT !.sockets[s] = "CLOSED"]))))
    /\ UNCHANGED <<loads, refreshes, pc, urlValid>>

\* an established connection fails (a frame the receiver rejects, a failed
\* write): readyState CLOSING, then the 'error' event; the 'close' event
\* follows as an event of its own, once the transport is torn down
SocketError ==
  \E s \in SocketIds :
    /\ Running
    /\ sockets[s] = "OPEN"
    /\ Install(onerror([Cur EXCEPT !.sockets[s] = "CLOSING"]))
    /\ UNCHANGED <<loads, refreshes, pc, urlValid>>

\* the remote ends an established connection (a close frame, or the end of
\* the TCP stream): readyState CLOSING and no event yet; the 'close' event
\* follows as an event of its own
CloseBegins ==
  \E s \in SocketIds :
    /\ Running
    /\ sockets[s] = "OPEN"
    /\ Install([Cur EXCEPT !.sockets[s] = "CLOSING"])
    /\ UNCHANGED <<loads, refreshes, pc, urlValid>>

\* the transport of socket s is gone, closed by the remote or torn down
\* after an error: readyState CLOSED, then the 'close' event
Close(s) ==
  /\ Running
  /\ sockets[s] \in {"OPEN", "CLOSING"}
  /\ Install(Collect(onclose([Cur EXCEPT !.sockets[s] = "CLOSED"])))
  /\ UNCHANGED <<loads, refreshes, pc, urlValid>>

SocketClose == \E s \in SocketIds : Close(s)

\* the 'close' event of a socket that has emitted 'error'
FailedSocketCloses == \E s \in SocketIds : sockets[s] = "CLOSING" /\ Close(s)

\* the refresh interval ticks: refreshTrackedWallets() up to its await
RefreshTick ==
  /\ Running
  /\ pc = "started"
  /\ refreshes < MaxRefresh
  /\ loads.refresh < MaxPendingLoads
  /\ loads' = [loads EXCEPT !.refresh = @ + 1]
  /\ refreshes' = refreshes + 1
  /\ UNCHANGED <<ws, sockets, isConnected, reconnectAttempts, reconnectDelay,
                 subscriptionIds, trackedWallets, processedTransactions, timers,
                 sent, pc, exited, urlValid, remoteSubs, classifyCount, inflight,
                 upserts>>

\* the refresh interval ticks while the first socket object is the open
\* connection
EpochRefreshTick ==
  /\ ws = 1
  /\ sockets[1] = "OPEN"
  /\ RefreshTick

\* the store answers the constructor's loadTrackedWallets()
StartupLoadDone ==
  \E r \in LoadResults :
    /\ Running
    /\ loads.startup > 0
    /\ Install(loadTrackedWallets(Cur, r.outcome, r.rows))
    /\ loads' = [loads EXCEPT !.startup = @ - 1]
    /\ UNCHANGED <<refreshes, pc, urlValid>>

\* the store answers the loadTrackedWallets() of a refresh
RefreshLoadDone ==
  \E r \in LoadResults :
    /\ Running
    /\ loads.refresh > 0
    /\ Install(refreshTrackedWallets(Cur, r.outcome, r.rows))
    /\ loads' = [loads EXCEPT !.refresh = @ - 1]
    /\ UNCHANGED <<refreshes, pc, urlValid>>

Shutdown_keepsRunning ==
  /\ Running
  /\ pc = "started"
  /\ sockets' = [s \in SocketIds |->
                   IF s = ws /\ sockets[s] \in {"CONNECTING", "OPEN"}
                   THEN "CLOSING" ELSE sockets[s]]
  /\ pc' = "shutdown"
  /\ UNCHANGED <<ws, isConnected, reconnectAttempts, reconnectDelay,
                 subscriptionIds, trackedWallets, processedTransactions, timers,
                 sent, loads, refreshes, exited, urlValid, remoteSubs,
                 classifyCount, inflight, upserts>>

\* SIGINT or SIGTERM: monitor.ws.close() and process.exit(0), which ends
\* the process before any event the close causes is delivered
Shutdown ==
  /\ Running
  /\ pc = "started"
  /\ sockets' = [s \in SocketIds |->
                   IF s = ws /\ sockets[s] \in {"CONNECTING", "OPEN"}
                   THEN "CLOSING" ELSE sockets[s]]
  /\ pc' = "shutdown"
  /\ exited' = "graceful"
  /\ UNCHANGED <<ws, isConnected, reconnectAttempts, reconnectDelay,
                 subscriptionIds, trackedWallets, processedTransactions, timers,
                 sent, loads, refreshes, urlValid, remoteSubs, classifyCount,
                 inflight, upserts>>

\* an ack arrives on socket s: it names request id `id` and carries the
\* next subscription id the remote assigns on the connection
Ack(s, id) ==
  /\ Running
  /\ sockets[s] = "OPEN"
  /\ Install(handleMessage([Cur EXCEPT !.remoteSubs = @ + 1],
                           AckFrame(id, remoteSubs + 1)))
  /\ UNCHANGED <<loads, refreshes, pc, urlValid>>

\* the remote acknowledges with any request id, asked for or not
AckArrives ==
  \E s \in SocketIds, id \in FrameIds \ {0} :
    /\ remoteSubs < MaxSubs
    /\ Ack(s, id)

\* the remote acknowledges the requests it was sent, each once, in order
SolicitedAckArrives ==
  \E s \in SocketIds :
    /\ remoteSubs < MaxLiveSubs
    /\ remoteSubs < Len(sent[s])
    /\ Ack(s, sent[s][remoteSubs + 1].id)

\* any other frame arrives on an open socket: handleMessage(event.data)
FrameArrives(frames) ==
  \E s \in SocketIds, m \in frames :
    /\ Running
    /\ sockets[s] = "OPEN"
    /\ Install(handleMessage(Cur, m))
    /\ UNCHANGED <<loads, refreshes, pc, urlValid>>

ControlFrameArrives == FrameArrives(ControlFrames)

NotificationArrives == FrameArrives(NotificationFrames)

\* the distinct signatures handled so far
Delivered == Cardinality(BagToSet(classifyCount))

\* the stream delivers its next transaction, or delivers again its first
\* or its latest one
StreamArrives ==
  \E s \in SocketIds, k \in {1, Delivered, Delivered + 1} \cap (1..MaxSignatures) :
    /\ Running
    /\ sockets[s] = "OPEN"
    /\ Install(handleMessage(Cur, NotificationFrame(StreamEntry(k))))
    /\ UNCHANGED <<loads, refreshes, pc, urlValid>>

\* one of the sample notifications arrives
SampleArrives ==
  \E s \in SocketIds, e \in SampleEntries :
    /\ Len(processedTransactions) < MaxSamples
    /\ Running
    /\ sockets[s] = "OPEN"
    /\ Install(handleMessage(Cur, NotificationFrame(e)))
    /\ UNCHANGED <<loads, refreshes, pc, urlValid>>

\* the store answers an upsert of analyzeWalletProfitability
UpsertDone ==
  \E h \in BagToSet(inflight), outcome \in StoreOutcomes :
    /\ Running
    /\ Install(resumeDiscovery(Cur, h, outcome))
    /\ UNCHANGED <<loads, refreshes, pc, urlValid>>

Next ==
  \/ Main
  \/ TimerFire
  \/ SocketOpen
  \/ HandshakeFails
  \/ SocketError
  \/ CloseBegins
  \/ SocketClose
  \/ RefreshTick
  \/ StartupLoadDone
  \/ RefreshLoadDone
  \/ AckArrives
  \/ ControlFrameArrives
  \/ Shutdown

Spec == Init /\ [][Next]_vars

\* The notification pipeline on a connection that stays up
NextPipe ==
  \/ Main
  \/ SocketOpen
  \/ StartupLoadDone
  \/ NotificationArrives
  \/ ControlFrameArrives
  \/ UpsertDone

\* The connection life cycle alone, with the scheduling the runtime
\* guarantees: a pending timer expires, and the transport delivers the
\* 'close' event of a socket that has emitted 'error'
NextConn ==
  \/ Main
  \/ TimerFire
  \/ SocketOpen
  \/ HandshakeFails
  \/ SocketError
  \/ CloseBegins
  \/ SocketClose
  \/ StartupLoadDone
  \/ Shutdown

SpecFair ==
  Init /\ [][NextConn]_vars /\ WF_vars(TimerFire) /\ WF_vars(FailedSocketCloses)

SpecPipe == Init /\ [][NextPipe]_vars

\* Subscriptions on a connection that stays up
NextLive ==
  \/ Main
  \/ SocketOpen
  \/ StartupLoadDone
  \/ RefreshTick
  \/ RefreshLoadDone
  \/ SolicitedAckArrives

SpecLive == Init /\ [][NextLive]_vars

\* The same, with the scheduling the runtime and the store give: the
\* refresh interval keeps ticking, and the store answers a refresh's query
SpecLiveFair ==
  Init /\ [][NextLive]_vars /\ WF_vars(RefreshTick) /\ WF_vars(RefreshLoadDone)

\* A refresh that starts on one connection and ends on whatever the
\* connection then is
NextEpoch ==
  \/ Main
  \/ TimerFire
  \/ SocketOpen
  \/ SocketError
  \/ CloseBegins
  \/ SocketClose
  \/ StartupLoadDone
  \/ EpochRefreshTick
  \/ RefreshLoadDone
  \/ AckArrives

SpecEpoch == Init /\ [][NextEpoch]_vars

\* Classification and extraction of the sample notifications
NextClassify ==
  \/ Main
  \/ SocketOpen
  \/ SampleArrives
  \/ UpsertDone

SpecClassify == Init /\ [][NextClassify]_vars

\* Shutdown signals while notifications are handled
NextStop ==
  \/ Main
  \/ SocketOpen
  \/ SampleArrives
  \/ UpsertDone
  \/ Shutdown

SpecStop == Init /\ [][NextStop]_vars

\* A long stream of transactions on a connection that stays up
NextCache ==
  \/ Main
  \/ SocketOpen
  \/ StreamArrives

SpecCache == Init /\ [][NextCache]_vars


-----------------------------------------------------------------------------
(* Properties                                                              *)

\* the connection state of the design: CONNECTED is isConnected,
\* CONNECTING is a current socket whose handshake is under way
ConnState ==
  IF isConnected THEN "CONNECTED"
  ELSE IF ws # 0 /\ sockets[ws] = "CONNECTING" THEN "CONNECTING"
  ELSE "DISCONNECTED"

\* a step in which socket s delivers its 'close' event
CloseStep(s) ==
  /\ sockets[s] \in {"CONNECTING", "OPEN", "CLOSING"}
  /\ sockets'[s] \in {"CLOSED", "NONE"}

\* a step in which socket s delivers its 'open' event
OpenStep(s) ==
  /\ sockets[s] = "CONNECTING"
  /\ sockets'[s] = "OPEN"

\* a step in which connect() passes its guard and new WebSocket throws
ThrowStep ==
  /\ Main \/ TimerFire
  /\ ~urlValid
  /\ ~isConnected
  /\ ~(ws # 0 /\ sockets[ws] = "CONNECTING")

\* C1: whenever the connection state is DISCONNECTED, no confirmed
\* subscription id is recorded (the monitor keeps no pending set at all).
\* Violated: onerror marks the monitor disconnected and leaves
\* subscriptionIds as it is until the 'close' event.
C1_DisconnectedHasNoSubscriptions ==
  ConnState = "DISCONNECTED" => subscriptionIds = {}

\* C2: every 'open' event leaves the monitor CONNECTED on the socket that
\* opened, the attempt counter at 0 and the interval at 5000 ms, and sends
\* on that socket, which had sent nothing, one request for every program
\* and one for every watched account.
C2_OpenResetsAndSubscribes ==
  [][\A s \in SocketIds :
       OpenStep(s) =>
         /\ ws' = s
         /\ ConnState' = "CONNECTED"
         /\ reconnectAttempts' = 0
         /\ reconnectDelay' = Ms(5000)
         /\ sent[s] = <<>>
         /\ \A p \in 1..Len(ACTIVE_DEX_PROGRAMS) :
              \E i \in 1..Len(sent'[s]) :
                sent'[s][i].mentions = <<ACTIVE_DEX_PROGRAMS[p]>>
         /\ \A w \in 1..Len(trackedWallets) :
              \E i \in 1..Len(sent'[s]) :
                sent'[s][i].mentions = <<trackedWallets[w]>>
         /\ \A i \in 1..Len(sent'[s]) : sent'[s][i].method = "logsSubscribe"]_vars

\* C2 witness: a connection opened with two watched accounts loaded, after
\* failed attempts, and its full batch is out
C2_Witness ==
  /\ isConnected
  /\ refreshes = 0
  /\ Len(trackedWallets) = 2
  /\ reconnectAttempts = 0
  /\ sockets[2] = "OPEN"
  /\ Len(sent[2]) = Len(ACTIVE_DEX_PROGRAMS) + 2

\* C3: once main() has connected, the running monitor is never
\* DISCONNECTED without a reconnect timer pending.
\* Violated: onerror marks the monitor disconnected and schedules nothing;
\* the reconnect is scheduled only by the 'close' event that follows.
C3_NeverDisconnectedWithoutReconnect ==
  (pc = "started" /\ Running /\ ConnState = "DISCONNECTED") => Len(timers) > 0

\* the running monitor is DISCONNECTED with nothing scheduled
Idle ==
  pc = "started" /\ Running /\ ConnState = "DISCONNECTED" /\ timers = <<>>

\* C3, what the handlers do guarantee: every 'close' event leaves the
\* monitor DISCONNECTED with a reconnect scheduled or the process exited;
\* the monitor is DISCONNECTED with nothing scheduled only while its socket
\* has emitted 'error' and not yet 'close', and that ends; a scheduled
\* reconnect does call connect(), which starts a handshake or, the url
\* being rejected, ends in the fatal exit.
C3_CloseSchedulesReconnect ==
  /\ [](Idle => (ws # 0 /\ sockets[ws] = "CLOSING"))
  /\ [][\A s \in SocketIds :
          CloseStep(s) =>
            /\ ConnState' = "DISCONNECTED"
            /\ \/ exited' = "fatal"
               \/ Len(timers') = Len(timers) + 1]_vars
  /\ (Idle ~> ~Idle)
  /\ (Running /\ timers # <<>>) ~> (~Running \/ ConnState = "CONNECTING")

\* a step that runs handleReconnect()
ReconnectStep == ThrowStep \/ \E s \in SocketIds : CloseStep(s)

\* C4: the attempt counter never exceeds 10; handleReconnect() at 10 exits
\* the process and schedules nothing, below 10 it adds 1 to the counter and
\* schedules one timer; and the counter changes in no other way than that
\* and the reset of onopen.
C4_ReconnectCeiling ==
  /\ [](reconnectAttempts <= 10)
  /\ [][ReconnectStep =>
          IF reconnectAttempts >= 10
          THEN exited' = "fatal" /\ reconnectAttempts' = reconnectAttempts
               /\ Len(timers') <= Len(timers)
          ELSE /\ exited' = "running"
               /\ reconnectAttempts' = reconnectAttempts + 1
               /\ Len(timers') = Len(timers) + (IF ThrowStep /\ pc = "started" THEN 0 ELSE 1)]_vars
  /\ [][~ReconnectStep =>
          /\ reconnectAttempts' \in {reconnectAttempts, 0}
          /\ exited' # "fatal"
          /\ Len(timers') <= Len(timers)]_vars

\* C4 witness: ten reconnects of sockets that closed, then the fatal exit
C4_Witness ==
  urlValid /\ exited = "fatal" /\ reconnectAttempts = 10 /\ timers = <<>>

\* the interval after k failures since the last open, in 1/8 ms:
\* 5000, 7500, 11250, 16875, 25312.5, 37968.75, 56953.125, then 60000
C5_Interval(k) ==
  CASE k = 0 -> 40000 [] k = 1 -> 60000 [] k = 2 -> 90000 [] k = 3 -> 135000
    [] k = 4 -> 202500 [] k = 5 -> 303750 [] k = 6 -> 455625 [] OTHER -> 480000

\* the delay of the timer of the k-th failure, in ms
C5_Delay(k) ==
  CASE k = 1 -> 5000 [] k = 2 -> 7500 [] k = 3 -> 11250 [] k = 4 -> 16875
    [] k = 5 -> 25312 [] k = 6 -> 37968 [] k = 7 -> 56953 [] OTHER -> 60000

\* C5: after k failures since the last open the interval is 5000 * 1.5^k
\* capped at 60000 ms, so always within [5000, 60000]; the timer of the
\* k-th failure runs for the interval before its multiplication, truncated
\* to whole milliseconds: 5000, 7500, 11250, 16875, 25312, ...
C5_BackoffSequence ==
  /\ reconnectDelay = C5_Interval(reconnectAttempts)
  /\ reconnectDelay >= 5000 * 8 /\ reconnectDelay <= 60000 * 8
  /\ \A i \in 1..Len(timers) : timers[i] = C5_Delay(reconnectAttempts)

\* C5 witness: the fifth failure in a row is scheduled with 25312 ms
C5_Witness ==
  timers = <<25312>> /\ reconnectAttempts = 5

\* a step in which requests are sent on socket s, and the requests sent
Sends(s) == Len(sent'[s]) > Len(sent[s])

Batch(s) == SubSeq(sent'[s], Len(sent[s]) + 1, Len(sent'[s]))

\* C6: one subscribeToLogs() on the open socket sends 6 + W requests, W the
\* size of the watched set it runs with: each mentions one topic, no two
\* carry the same id, the six programs come first in their configured order
\* and the watched accounts follow in theirs; what was sent before stays.
C6_OneRequestPerTopic ==
  [][\A s \in SocketIds :
       Sends(s) =>
         LET batch == Batch(s)
             W == Len(trackedWallets')
         IN  /\ s = ws' /\ sockets'[s] = "OPEN"
             /\ SubSeq(sent'[s], 1, Len(sent[s])) = sent[s]
             /\ Len(batch) = 6 + W
             /\ \A i \in 1..Len(batch) : Len(batch[i].mentions) = 1
             /\ \A i, j \in 1..Len(batch) : i # j => batch[i].id # batch[j].id
             /\ \A i \in 1..6 : batch[i].mentions[1] = DEX_PROGRAM_IDS[i]
             /\ \A i \in 1..W : batch[6 + i].mentions[1] = trackedWallets'[i]]_vars

\* C6 witness: a refresh on a live connection has sent a second batch, for
\* two watched accounts
C6_Witness ==
  /\ isConnected
  /\ Len(trackedWallets) = 2
  /\ refreshes = 1 /\ loads.refresh = 0
  /\ Len(sent[ws]) >= 6 + 6 + 2

\* C7: the ids of the requests sent on one socket are strictly increasing.
\* Violated: every subscribeToLogs() numbers its requests from 1 again, so a
\* refresh on a live connection repeats the ids of the batch sent at open.
C7_RequestIdsIncrease ==
  \A s \in SocketIds :
    \A i, j \in 1..Len(sent[s]) : i < j => sent[s][i].id < sent[s][j].id

\* the ids of the requests sent on socket s
SentIds(s) == {sent[s][i].id : i \in 1..Len(sent[s])}

\* C8: an ack that names a request sent on the connection records its
\* result; an ack that names no request of the connection records nothing.
\* Violated: handleMessage adds the result of every ack with an id and a
\* result, and keeps neither the request ids nor their topics.
C8_AckRecordsOnlyOutstanding ==
  [][\A s \in SocketIds, id \in FrameIds \ {0} :
       Ack(s, id) =>
         IF id \in SentIds(s)
         THEN subscriptionIds' = subscriptionIds \cup {remoteSubs + 1}
         ELSE subscriptionIds' = subscriptionIds]_vars

\* C9: the confirmed subscriptions are never more than the topics.
\* Violated: subscriptionIds is a set of the acks' results, so the acks of
\* a refresh's second batch add to it and overwrite nothing.
C9_AtMostOneConfirmationPerTopic ==
  Cardinality(subscriptionIds) <= Len(ACTIVE_DEX_PROGRAMS) + Len(trackedWallets)

\* a step in which the notification with log entry e is dispatched
NotificationStep(e) ==
  \E s \in SocketIds :
    /\ Running
    /\ sockets[s] = "OPEN"
    /\ Install(handleMessage(Cur, NotificationFrame(e)))

\* C10: a notification whose signature is in processedTransactions changes
\* nothing; one whose signature is not is added to it and classified once
\* more, and, when its logs are relevant and name an address, the first
\* upsert is issued and the handler waits for it; when they are not, no
\* upsert is issued.
C10_DuplicateIsDiscarded ==
  [][\A e \in LogEntries :
       (e.hasSignature /\ NotificationStep(e)) =>
         IF InSeq(e.signature, processedTransactions)
         THEN UNCHANGED <<processedTransactions, classifyCount, inflight, upserts>>
         ELSE /\ InSeq(e.signature, processedTransactions')
              /\ classifyCount' = classifyCount (+) SetToBag({e.signature})
              /\ LET found == IF e.hasLogs /\ isDEXTransaction(e.logs)
                              THEN extractWalletAddresses(e.logs) ELSE <<>>
                 IN  IF found # <<>>
                     THEN /\ upserts' = upserts (+) SetToBag({<<found[1], e.signature>>})
                          /\ BagCardinality(inflight') = BagCardinality(inflight) + 1
                     ELSE upserts' = upserts /\ inflight' = inflight]_vars

\* C10 witness: signatures 1 (relevant, two addresses) and 4 (not relevant)
\* have been handled, each classified once, and both upserts of 1 are out
C10_Witness ==
  /\ InSeq(1, processedTransactions) /\ InSeq(4, processedTransactions)
  /\ CopiesIn(1, classifyCount) = 1 /\ CopiesIn(4, classifyCount) = 1
  /\ CopiesIn(<<JUPITER, 1>>, upserts) = 1
  /\ CopiesIn(<<WalletA, 1>>, upserts) = 1
  /\ inflight = EmptyBag

-----------------------------------------------------------------------------
(* The dedup cache                                                         *)

C12_ClassifiedOnce ==
  \A sig \in BagToSet(classifyCount) : CopiesIn(sig, classifyCount) <= 1

\* C12 as amended: a signature is classified only by a delivery that finds
\* it absent from processedTransactions, once per such delivery, and is in
\* the cache afterwards; a signature that was classified before is
\* classified again only after a trim of the cache, which takes 1001
\* insertions.
C12_ClassifiedOnceWhileRetained ==
  [][\A sig \in 1..MaxSignatures :
       CopiesIn(sig, classifyCount') # CopiesIn(sig, classifyCount) =>
         /\ ~InSeq(sig, processedTransactions)
         /\ InSeq(sig, processedTransactions')
         /\ CopiesIn(sig, classifyCount') = CopiesIn(sig, classifyCount) + 1
         /\ CopiesIn(sig, classifyCount) > 0 =>
              BagCardinality(classifyCount) >= CacheLimit + 1]_vars

\* C12 witness: the first signature was evicted by the 1001st and handled
\* again on its next delivery; the 1001st has been handled once
C12_Witness ==
  /\ CopiesIn(1, classifyCount) = 2
  /\ CopiesIn(CacheLimit + 1, classifyCount) = 1
  /\ InSeq(1, processedTransactions)

-----------------------------------------------------------------------------
(* Guards of connect() and subscribeToLogs()                               *)

\* the connection is being established, or is established
Connecting == ws # 0 /\ sockets[ws] = "CONNECTING"

Connected == ws # 0 /\ sockets[ws] = "OPEN"

\* C13: in every state in which the socket is connecting or open, or the
\* monitor marked connected, connect() leaves the monitor as it is: the
\* same socket, the same sockets' states, no timer added, the same attempt
\* counter, backoff delay, confirmed ids and sent requests.
C13_ConnectIsNoOpWhileConnecting ==
  (Connecting \/ Connected \/ isConnected) => connect(Cur) = Cur

\* C13 witness: a reconnect is under way, its socket still connecting
C13_Witness ==
  /\ Connecting
  /\ ~isConnected
  /\ reconnectAttempts > 0
  /\ timers = <<>>

\* C14: while the socket of the monitor is not open, subscribeToLogs()
\* leaves the monitor as it is and a completing refresh sends nothing; and
\* every step that sends requests sends them on the monitor's socket, open
\* and marked connected after the step.
C14_SubscribeOnlyWhenOpen ==
  /\ [](~Connected =>
          /\ subscribeToLogs(Cur) = Cur
          /\ \A r \in LoadResults :
               refreshTrackedWallets(Cur, r.outcome, r.rows).sent = sent)
  /\ [][\A s \in SocketIds :
          Sends(s) => s = ws' /\ sockets'[s] = "OPEN" /\ isConnected']_vars

\* C14 witness: the remote has begun to close the connection, the monitor
\* is still marked connected, and a refresh that loaded a watched account
\* has completed: the six requests sent at open are all that was sent
C14_Witness ==
  /\ isConnected
  /\ ws # 0 /\ sockets[ws] = "CLOSING"
  /\ refreshes = 1 /\ loads.refresh = 0
  /\ trackedWallets # <<>>
  /\ Len(sent[ws]) = Len(ACTIVE_DEX_PROGRAMS)

-----------------------------------------------------------------------------
(* Refresh of the watched accounts                                         *)

\* a step in which the load of a refresh ends with result r
RefreshDoneStep(r) ==
  /\ Running
  /\ loads.refresh > 0
  /\ loads' = [loads EXCEPT !.refresh = @ - 1]
  /\ Install(refreshTrackedWallets(Cur, r.outcome, r.rows))

\* C15: a refresh whose load succeeds while the monitor is DISCONNECTED
\* leaves as watched set exactly the loaded addresses, each once, sends
\* nothing and changes nothing else; and every open sends, after the six
\* program requests, one request per account of the watched set as it is
\* at the open, in its order.
C15_RefreshWhileDisconnected ==
  /\ [][\A r \in LoadResults :
          (ConnState = "DISCONNECTED" /\ r.outcome = "ok" /\ RefreshDoneStep(r)) =>
            /\ {trackedWallets'[i] : i \in 1..Len(trackedWallets')}
                 = {r.rows[i] : i \in 1..Len(r.rows)}
            /\ \A i, j \in 1..Len(trackedWallets') :
                 i # j => trackedWallets'[i] # trackedWallets'[j]
            /\ UNCHANGED <<ws, sockets, isConnected, reconnectAttempts,
                           reconnectDelay, subscriptionIds, timers, sent>>]_vars
  /\ [][\A s \in SocketIds :
          OpenStep(s) =>
            /\ Len(sent'[s]) = Len(ACTIVE_DEX_PROGRAMS) + Len(trackedWallets)
            /\ \A i \in 1..Len(trackedWallets) :
                 sent'[s][Len(ACTIVE_DEX_PROGRAMS) + i].mentions
                   = <<trackedWallets[i]>>]_vars

\* C15 witness: the startup load is still pending, so the two watched
\* accounts come from the refresh; the socket is closed with only the six
\* requests of its open sent, and a reconnect is scheduled
C15_Witness ==
  /\ ConnState = "DISCONNECTED"
  /\ loads.startup = 1
  /\ refreshes = 1 /\ loads.refresh = 0
  /\ Len(trackedWallets) = 2
  /\ ws # 0 /\ sockets[ws] = "CLOSED"
  /\ Len(sent[ws]) = Len(ACTIVE_DEX_PROGRAMS)
  /\ timers # <<>>

-----------------------------------------------------------------------------
(* Shutdown                                                                *)

\* C16: once a shutdown signal has been handled, no step runs connect():
\* no reconnect timer expires, this.ws stays the socket it was, and no
\* socket starts a handshake.
C16_NoConnectAfterShutdown ==
  [][pc = "shutdown" =>
       /\ timers' = timers
       /\ ws' = ws
       /\ \A s \in SocketIds :
            sockets'[s] = "CONNECTING" => sockets[s] = "CONNECTING"]_vars

\* C16 witness: the signal arrived while the monitor waited to reconnect,
\* the timer still pending
C16_Witness ==
  /\ pc = "shutdown"
  /\ exited = "graceful"
  /\ timers # <<>>
  /\ reconnectAttempts > 0

-----------------------------------------------------------------------------
(* The dispatcher                                                          *)

\* C17: in every state with an open socket, a frame that JSON.parse
\* rejects leaves the monitor as it is (the process running, the
\* connection, the confirmed ids, the cache, the pending and issued
\* upserts), and every frame dispatched after it has the effect it would
\* have had without it.
C17_ParseFailureIsContained ==
  (\E s \in SocketIds : sockets[s] = "OPEN") =>
    /\ handleMessage(Cur, GarbageFrame) = Cur
    /\ \A m \in ControlFrames \cup NotificationFrames :
         handleMessage(handleMessage(Cur, GarbageFrame), m) = handleMessage(Cur, m)

\* C17 witness: the connection is up in mid-stream, signatures cached and
\* a discovery waiting for the store
C17_Witness ==
  /\ ws # 0 /\ sockets[ws] = "OPEN"
  /\ isConnected
  /\ Len(processedTransactions) >= 2
  /\ inflight # EmptyBag

\* frames that carry an id and a result: the ack of a request the monitor
\* sent or of none, with the subscription id the remote assigns (0 on a
\* fresh remote), alone or together with an error or a notification
AckLikeFrames ==
  {Frame(TRUE, TRUE, id, TRUE, result, hasError, method, method # "", NoEntry) :
     id \in FrameIds, result \in {0, 1, 99}, hasError \in BOOLEAN,
     method \in {"", "logsNotification"}}

\* C18: every frame that carries an id and a result is handled as an ack:
\* its result is recorded and nothing else changes.
\* Violated: handleMessage tests message.id && message.result, so a result
\* of 0 (or an id of 0) is not an ack; the frame falls through to the
\* error, notification and unrecognized cases and its result is dropped.
C18_IdAndResultIsAck ==
  (\E s \in SocketIds : sockets[s] = "OPEN") =>
    \A m \in AckLikeFrames :
      handleMessage(Cur, m) = [Cur EXCEPT !.subscriptionIds = @ \cup {m.result}]

-----------------------------------------------------------------------------
(* The discovery sink                                                      *)

\* the upserts a step issues
Issued == {u \in BagToSet(upserts') : CopiesIn(u, upserts') > CopiesIn(u, upserts)}

\* C19: no candidate upsert is issued for an address that is a watched
\* account when the upsert is issued.
\* Violated: analyzeWalletProfitability upserts every extracted address
\* and never consults trackedWallets.
C19_NoCandidateForWatchedAccount ==
  [][\A u \in Issued : ~InSeq(u[1], trackedWallets)]_vars

\* a step in which the store answers the upsert that h waits for
UpsertDoneStep(h, outcome) ==
  /\ Running
  /\ Install(resumeDiscovery(Cur, h, outcome))

\* C20: however the store answers an upsert (data, an error result, a
\* rejection), the step leaves the connection, the confirmed ids, the
\* reconnect counter, delay and timers and the sent requests as they are
\* and the process running, and issues the upsert of the next address of
\* the same notification when there is one; and while upserts are pending
\* every notification is dispatched with the effect it has when none is
\* pending.
C20_StoreFailureIsContained ==
  /\ [][\A h \in BagToSet(inflight), outcome \in StoreOutcomes :
          UpsertDoneStep(h, outcome) =>
            /\ UNCHANGED <<ws, sockets, isConnected, subscriptionIds,
                           reconnectAttempts, reconnectDelay, timers, sent,
                           exited, processedTransactions>>
            /\ IF h.rest # <<>>
               THEN /\ upserts' = upserts (+) SetToBag({<<h.rest[1], h.signature>>})
                    /\ BagCardinality(inflight') = BagCardinality(inflight)
               ELSE /\ upserts' = upserts
                    /\ BagCardinality(inflight') = BagCardinality(inflight) - 1]_vars
  /\ [](\A m \in NotificationFrames :
          LET idle == handleMessage([Cur EXCEPT !.inflight = EmptyBag], m)
          IN  handleMessage(Cur, m) = [idle EXCEPT !.inflight = @ (+) inflight])

\* C20 witness: the second address of notification 1 was upserted after
\* the store answered the first, and two notifications dispatched
\* meanwhile wait for the store
C20_Witness ==
  /\ CopiesIn(<<WalletA, 1>>, upserts) = 1
  /\ BagCardinality(inflight) >= 2
  /\ isConnected

-----------------------------------------------------------------------------
(* The classifier and the extractor                                        *)

\* the program ids and the keywords the classifier looks for
Patterns ==
  {ACTIVE_DEX_PROGRAMS[p] : p \in 1..Len(ACTIVE_DEX_PROGRAMS)}
    \cup {KeywordSwap, KeywordTrade, KeywordExchange}

\* pat occurs in line, character by character, from position k + 1 on
OccursAt(line, pat, k) ==
  /\ k + Len(pat) <= Len(line)
  /\ \A j \in 1..Len(pat) : line[k + j] = pat[j]

\* some line of logs contains a pattern
Relevant(logs) ==
  \E i \in 1..Len(logs), pat \in Patterns :
    \E k \in 0..Len(logs[i]) : OccursAt(logs[i], pat, k)

\* the sample notification with signature sig
SampleOf(sig) == CHOOSE e \in SampleEntries : e.signature = sig

\* C21: isDEXTransaction(logs) is true exactly when some line of logs
\* contains a program id or one of the keywords swap, trade, exchange, for
\* every sample and every notification of the stream, the empty list
\* included; and a new sample notification leads to an upsert exactly when
\* its logs are relevant in that sense and name an address.
C21_RelevantIffPatternOccurs ==
  /\ [](\A e \in SampleEntries \cup {x \in LogEntries : x.hasLogs} :
          isDEXTransaction(e.logs) = Relevant(e.logs))
  /\ [][\A e \in SampleEntries :
          (NotificationStep(e) /\ ~InSeq(e.signature, processedTransactions)) =>
            (Issued # {} <=>
               (Relevant(e.logs) /\ extractWalletAddresses(e.logs) # <<>>))]_vars

\* C21 witness: the sample with 'trade' inside a word led to an upsert, the
\* sample with the keywords in another case was handled and led to none
C21_Witness ==
  /\ InSeq(13, processedTransactions) /\ InSeq(16, processedTransactions)
  /\ CopiesIn(<<WalletA, 13>>, upserts) = 1
  /\ CopiesIn(<<WalletA, 16>>, upserts) = 0

\* the elements of a sequence
Elements(seq) == {seq[i] : i \in 1..Len(seq)}

\* C22: the addresses extracted from a notification are pairwise distinct
\* and are all the matches found in its lines; no upsert is issued twice
\* for the same address and notification; and when the discovery of a
\* relevant sample notification has run to its end, each of its addresses
\* has been upserted exactly once.
C22_AddressOncePerNotification ==
  /\ \A e \in SampleEntries :
       LET found == extractWalletAddresses(e.logs)
       IN  /\ \A i, j \in 1..Len(found) : i # j => found[i] # found[j]
           /\ Elements(found) = Elements(AllMatches(e.logs))
  /\ \A u \in BagToSet(upserts) : CopiesIn(u, upserts) = 1
  /\ \A e \in SampleEntries :
       (/\ InSeq(e.signature, processedTransactions)
        /\ Relevant(e.logs)
        /\ \A h \in BagToSet(inflight) : h.signature # e.signature) =>
         \A a \in Elements(AllMatches(e.logs)) :
           CopiesIn(<<a, e.signature>>, upserts) = 1

\* C22 witness: the discoveries of the sample that names one address in
\* two lines and of the sample that names one twice in a line are done
C22_Witness ==
  /\ CopiesIn(<<WalletA, 14>>, upserts) = 1
  /\ CopiesIn(<<WalletB, 15>>, upserts) = 1
  /\ inflight = EmptyBag

\* the maximal runs of base-58 characters of a line: they cannot be
\* extended to the left or to the right
MaximalRuns(line) ==
  LET n == Len(line)
      ends == {p \in (1..n) \X (1..n) :
                 /\ p[1] <= p[2]
                 /\ \A k \in p[1]..p[2] : line[k] \in Base58
                 /\ p[1] = 1 \/ line[p[1] - 1] \notin Base58
                 /\ p[2] = n \/ line[p[2] + 1] \notin Base58}
  IN  {SubSeq(line, p[1], p[2]) : p \in ends}

\* the maximal runs of 32 to 44 characters in the lines of logs
AddressRuns(logs) ==
  {r \in UNION {MaximalRuns(logs[i]) : i \in 1..Len(logs)} :
     Len(r) >= MinAddressLen /\ Len(r) <= MaxAddressLen}

\* C23: every address handed to the sink is a maximal run of 32 to 44
\* base-58 characters of a line of its notification: a longer run yields
\* no address.
\* Violated: walletRegex has no boundary on either side, so of a run of 50
\* characters it matches the first 44, which are upserted as an address.
C23_ExtractsMaximalRuns ==
  [][\A u \in Issued : u[1] \in AddressRuns(SampleOf(u[2]).logs)]_vars

-----------------------------------------------------------------------------
(* Subscription errors and epochs                                          *)

\* C24: in every state with an open socket, an error frame for a request
\* id, of a request that was sent or not, leaves the monitor as it is:
\* nothing is sent, no confirmed id is added or removed, the connection,
\* the attempt counter, the delay and the timers stay (the monitor keeps
\* no pending requests that could be dropped).
C24_ErrorFrameChangesNothing ==
  (\E s \in SocketIds : sockets[s] = "OPEN") =>
    \A id \in FrameIds : handleMessage(Cur, ErrorFrame(id)) = Cur

\* C24 witness: a connection with a watched account subscribed and a
\* confirmed id recorded
C24_Witness ==
  /\ isConnected
  /\ ws # 0 /\ sockets[ws] = "OPEN"
  /\ subscriptionIds # {}
  /\ trackedWallets # <<>>
  /\ Len(sent[ws]) = Len(ACTIVE_DEX_PROGRAMS) + Len(trackedWallets)

\* C25: a refresh whose load ends sends, if at all, on the socket that is
\* this.ws at that moment, open and marked connected, and on no other;
\* every open starts without confirmed ids; and on an open connection
\* every confirmed id is one the remote assigned on that connection.
C25_RefreshUsesCurrentConnection ==
  /\ [][\A r \in LoadResults :
          RefreshDoneStep(r) =>
            \A s \in SocketIds :
              Sends(s) => s = ws /\ sockets[s] = "OPEN" /\ isConnected]_vars
  /\ [][\A s \in SocketIds : OpenStep(s) => subscriptionIds' = {}]_vars
  /\ [](Connected => subscriptionIds \subseteq 1..remoteSubs)

\* C25 witness: the refresh started while socket 1 was the connection;
\* its requests went out on socket 2, the connection after the reconnect,
\* behind the requests of that socket's open
C25_Witness ==
  /\ refreshes = 1 /\ loads.refresh = 0
  /\ ws = 2 /\ sockets[2] = "OPEN"
  /\ isConnected
  /\ Len(sent[2]) = 2 * Len(ACTIVE_DEX_PROGRAMS) + Len(trackedWallets)
  /\ trackedWallets # <<>>

-----------------------------------------------------------------------------
(* Concurrency of the notification handlers                                *)

\* C26: while a handler waits for the store, its signature is in
\* processedTransactions, was classified once, and no second handler of
\* the same signature waits; a notification with that signature, when
\* dispatched, leaves the monitor as it is.
C26_DedupIsAtomic ==
  /\ [](\A h \in BagToSet(inflight) :
          /\ InSeq(h.signature, processedTransactions)
          /\ CopiesIn(h.signature, classifyCount) = 1
          /\ \A g \in BagToSet(inflight) : g.signature = h.signature => g = h
          /\ CopiesIn(h, inflight) = 1
          /\ \A e \in LogEntries :
               (e.hasSignature /\ e.signature = h.signature) =>
                 handleMessage(Cur, NotificationFrame(e)) = Cur)
  /\ [][\A e \in LogEntries :
          (/\ e.hasSignature
           /\ \E h \in BagToSet(inflight) : h.signature = e.signature
           /\ NotificationStep(e)) =>
            UNCHANGED <<processedTransactions, classifyCount, inflight, upserts>>]_vars

\* C26 witness: the handlers of signatures 1 and 2 both wait for the
\* store, each signature classified once
C26_Witness ==
  /\ \E h \in BagToSet(inflight) : h.signature = 1
  /\ \E h \in BagToSet(inflight) : h.signature = 2
  /\ CopiesIn(1, classifyCount) = 1
  /\ CopiesIn(2, classifyCount) = 1

\* C27: the process has not exited on a shutdown signal while an upsert
\* is in flight (the handlers start no grace period that could elapse).
\* Violated: the signal handlers call process.exit(0) in the same turn as
\* ws.close(), whatever is waiting for the store.
C27_ShutdownWaitsForWrites ==
  exited = "graceful" => inflight = EmptyBag

-----------------------------------------------------------------------------
(* Loads of the watched accounts                                           *)

\* a step in which the startup load ends with result r
StartupDoneStep(r) ==
  /\ Running
  /\ loads.startup > 0
  /\ loads' = [loads EXCEPT !.startup = @ - 1]
  /\ Install(loadTrackedWallets(Cur, r.outcome, r.rows))

\* C28: a load that ends with an error result or a rejection, at startup
\* or in a refresh, leaves the watched set, the socket and its state, the
\* connected flag, the attempt counter, the delay, the timers and the
\* confirmed ids as they are and the process running; a load that
\* succeeds leaves as watched set exactly the loaded addresses, each once,
\* whatever the set was.
C28_FailedLoadKeepsWatchedSet ==
  [][\A r \in LoadResults :
       (StartupDoneStep(r) \/ RefreshDoneStep(r)) =>
         /\ UNCHANGED <<ws, sockets, isConnected, reconnectAttempts,
                        reconnectDelay, timers, subscriptionIds, exited>>
         /\ IF r.outcome = "ok"
            THEN /\ Elements(trackedWallets') = Elements(r.rows)
                 /\ \A i, j \in 1..Len(trackedWallets') :
                      i # j => trackedWallets'[i] # trackedWallets'[j]
            ELSE trackedWallets' = trackedWallets]_vars

\* C28 witness: the startup load and a refresh have both ended, on a live
\* connection with two watched accounts
C28_Witness ==
  /\ loads.startup = 0 /\ loads.refresh = 0
  /\ refreshes = 1
  /\ Len(trackedWallets) = 2
  /\ isConnected

-----------------------------------------------------------------------------
(* One connection at a time                                                *)

\* the sockets that can still deliver an event
Live == {s \in SocketIds : sockets[s] \in {"CONNECTING", "OPEN", "CLOSING"}}

\* C29: at most one reconnect timer is pending; at most one socket can
\* still deliver an event, and it is this.ws; a timer is pending only
\* while no socket is connecting or open; and every step that delivers a
\* socket's 'close' or 'error' event delivers it for this.ws.
C29_OneTimerOneSocket ==
  /\ [](/\ Len(timers) <= 1
        /\ Cardinality(Live) <= 1
        /\ \A s \in Live : s = ws
        /\ timers # <<>> => Live = {})
  /\ [][\A s \in SocketIds :
          (CloseStep(s) \/ (sockets[s] = "OPEN" /\ sockets'[s] = "CLOSING")) =>
            s = ws]_vars

\* C29 witness: the third reconnect is scheduled, the socket of the last
\* attempt closed
C29_Witness ==
  /\ Len(timers) = 1
  /\ reconnectAttempts = 3
  /\ ws # 0 /\ sockets[ws] = "CLOSED"
  /\ Running

-----------------------------------------------------------------------------
(* The startup load                                                        *)

\* a subscribe request for topic w has been sent on the connection
Requested(w) ==
  /\ ws # 0
  /\ \E i \in 1..Len(sent[ws]) : sent[ws][i].mentions = <<w>>

\* C30: on a connection that stays up, for every account w: once w is in
\* the watched set and a tick of the refresh interval is still to come,
\* then eventually a subscribe request for w has been sent on the
\* connection, or a later load has taken w out of the watched set. (When
\* the load ends before the open, the request is part of the open's batch;
\* when it ends after, the request waits for the next refresh.)
C30_LoadedAccountsGetSubscribed ==
  \A w \in StoreWallets :
    (Connected /\ isConnected /\ InSeq(w, trackedWallets) /\ refreshes < MaxRefresh)
      ~> (Requested(w) \/ ~InSeq(w, trackedWallets))

\* C30 witness: the socket opened with no account loaded (its seventh
\* request is the first of a second batch), and after the loads and a
\* refresh every watched account has its request on the connection
C30_Witness ==
  /\ Connected /\ isConnected
  /\ loads.startup = 0 /\ loads.refresh = 0
  /\ refreshes = 1
  /\ trackedWallets # <<>>
  /\ Len(sent[ws]) = 2 * Len(ACTIVE_DEX_PROGRAMS) + Len(trackedWallets)
  /\ sent[ws][Len(ACTIVE_DEX_PROGRAMS) + 1].mentions = <<ACTIVE_DEX_PROGRAMS[1]>>
  /\ \A i \in 1..Len(trackedWallets) : Requested(trackedWallets[i])
====
